---- MODULE Spec2Model ----
(***************************************************************************)
(* A model of fastjson.c: the growable JsonBuffer, the recursive           *)
(* serializer (serialize_object / append_escaped_string) and the           *)
(* recursive-descent parser (parse_json_value and friends) driven by the   *)
(* entry points dumps/encode and loads/load.                               *)
(*                                                                         *)
(* Text is a sequence of byte codes.  Host (Python) objects are records    *)
(* [t |-> tag, v |-> payload]; the payload's shape depends on the tag.     *)
(***************************************************************************)
EXTENDS Integers, Sequences, FiniteSets, TLC

---------------------------------------------------------------------------
(* Byte codes of the characters the source names.                          *)
ChNul == 0
ChBackspace == 8
ChTab == 9
ChNewline == 10
ChVTab == 11
ChFormFeed == 12
ChReturn == 13
ChUnitSep == 31
ChSpace == 32
ChQuote == 34
ChPlus == 43
ChComma == 44
ChMinus == 45
ChDot == 46
ChSlash == 47
ChZero == 48
ChNine == 57
ChColon == 58
ChUpperA == 65
ChUpperE == 69
ChUpperF == 70
ChUpperX == 88
ChLBracket == 91
ChBackslash == 92
ChRBracket == 93
ChLowerA == 97
ChLowerB == 98
ChLowerE == 101
ChLowerF == 102
ChLowerL == 108
ChLowerN == 110
ChLowerR == 114
ChLowerS == 115
ChLowerT == 116
ChLowerU == 117
ChLowerX == 120
ChLowerZ == 122
ChLBrace == 123
ChRBrace == 125
ChDel == 127

Min(a, b) == IF a < b THEN a ELSE b

RECURSIVE Pow(_, _)
Pow(b, n) == IF n = 0 THEN 1 ELSE b * Pow(b, n - 1)

(* isdigit(c) and isspace(c) of <ctype.h> in the "C" locale. *)
isdigit(c) == c >= ChZero /\ c <= ChNine

isspace(c) == c \in {ChSpace, ChTab, ChNewline, ChVTab, ChFormFeed, ChReturn}

(* The lowercase hex digit of n in 0..15, as printf's %x prints it. *)
HexDigit(n) == IF n < 10 THEN ChZero + n ELSE ChLowerA + (n - 10)

(* printf's "\\u%04x" of c: backslash, u, at least 4 hex digits. *)
RECURSIVE HexDigits(_)
HexDigits(n) == IF n < 16 THEN <<HexDigit(n)>>
                ELSE Append(HexDigits(n \div 16), HexDigit(n % 16))

RECURSIVE ZeroPad(_, _)
ZeroPad(s, width) == IF Len(s) >= width THEN s ELSE ZeroPad(<<ChZero>> \o s, width)

FormatU04x(c) == <<ChBackslash, ChLowerU>> \o ZeroPad(HexDigits(c), 4)

(* snprintf(dst, size, ...): at most size - 1 characters of the formatted  *)
(* text are stored, then a NUL.                                            *)
snprintf(size, formatted) ==
    SubSeq(formatted, 1, Min(Len(formatted), size - 1)) \o <<ChNul>>

(* Decimal text of an integer (PyObject_Str of an int, printf's %d). *)
RECURSIVE DecDigits(_)
DecDigits(n) == IF n < 10 THEN <<ChZero + n>>
                ELSE Append(DecDigits(n \div 10), ChZero + (n % 10))

PyLong_Str(n) == IF n < 0 THEN <<ChMinus>> \o DecDigits(-n) ELSE DecDigits(n)

(* A float is the pair <<m, e>> standing for m * 10^e, m without trailing   *)
(* zeros.  PyObject_Repr prints it in fixed notation (the model's floats    *)
(* have a decimal exponent in the range repr prints without an exponent).   *)
RECURSIVE NormFloat(_, _)
NormFloat(m, e) == IF m = 0 THEN <<0, 0>>
                   ELSE IF m % 10 = 0 THEN NormFloat(m \div 10, e + 1)
                   ELSE <<m, e>>

PyFloat_Repr(f) ==
    LET m == f[1]
        e == f[2]
        a == IF m < 0 THEN -m ELSE m
        sign == IF m < 0 THEN <<ChMinus>> ELSE << >>
    IN  IF e >= 0
        THEN sign \o DecDigits(a * Pow(10, e)) \o <<ChDot, ChZero>>
        ELSE sign \o DecDigits(a \div Pow(10, -e)) \o <<ChDot>>
                  \o ZeroPad(DecDigits(a % Pow(10, -e)), -e)

---------------------------------------------------------------------------
(* JsonBuffer: data holds the bytes written so far, the terminating NUL     *)
(* included once an append has been made.                                  *)
NoBuffer == [data |-> << >>, length |-> 0, capacity |-> 0, alive |-> FALSE]

(* buffer_init: mem says whether PyMem_Malloc returned storage. *)
buffer_init(initial_capacity, mem) ==
    IF mem
    THEN [rc |-> 0,
          buf |-> [data |-> << >>, length |-> 0,
                   capacity |-> initial_capacity, alive |-> TRUE]]
    ELSE [rc |-> -1, buf |-> NoBuffer]

buffer_free(buf) == NoBuffer

(* A growth that doubles once, without the loop. *)
GrowCapacity_once(new_capacity, wanted) == new_capacity

RECURSIVE GrowCapacity(_, _)
GrowCapacity(new_capacity, wanted) ==
    IF new_capacity < wanted THEN GrowCapacity(new_capacity * 2, wanted)
    ELSE new_capacity

(* A growth that stores what PyMem_Realloc returned before testing it: the   *)
(* storage is lost when the reallocation fails.                            *)
buffer_ensure_capacity_lost(buf, needed, mem) ==
    IF buf.length + needed < buf.capacity THEN [rc |-> 0, buf |-> buf]
    ELSE IF mem
         THEN [rc |-> 0,
               buf |-> [buf EXCEPT !.capacity =
                           GrowCapacity(buf.capacity * 2, buf.length + needed)]]
         ELSE [rc |-> -1, buf |-> [buf EXCEPT !.data = << >>, !.length = 0]]

(* buffer_ensure_capacity: mem says whether PyMem_Realloc succeeds. *)
buffer_ensure_capacity(buf, needed, mem) ==
    IF buf.length + needed < buf.capacity THEN [rc |-> 0, buf |-> buf]
    ELSE IF mem
         THEN [rc |-> 0,
               buf |-> [buf EXCEPT !.capacity =
                           GrowCapacity(buf.capacity * 2, buf.length + needed)]]
         ELSE [rc |-> -1, buf |-> buf]

(* buffer_append(buf, str, len): the first len bytes of str. *)
buffer_append(buf, str, len, mem) ==
    LET r == buffer_ensure_capacity(buf, len + 1, mem)
    IN  IF r.rc < 0 THEN r
        ELSE [rc |-> 0,
              buf |-> [r.buf EXCEPT
                         !.data = SubSeq(buf.data, 1, buf.length)
                                    \o SubSeq(str, 1, len) \o <<ChNul>>,
                         !.length = buf.length + len]]

buffer_append_char(buf, c, mem) == buffer_append(buf, <<c>>, 1, mem)

(* PyUnicode_FromStringAndSize(buf.buffer, buf.length): the bytes. *)
BufferText(buf) == SubSeq(buf.data, 1, buf.length)

---------------------------------------------------------------------------
(* The error indicator of the host (PyErr_SetString / PyErr_NoMemory).     *)
NoError == [kind |-> "none", msg |-> ""]
MemoryError == [kind |-> "MemoryError", msg |-> ""]
ValueError(m) == [kind |-> "ValueError", msg |-> m]
TypeError(m) == [kind |-> "TypeError", msg |-> m]

(* Host objects. *)
PyNone == [t |-> "null", v |-> 0]
PyBool(b) == [t |-> "bool", v |-> b]
PyLong(n) == [t |-> "int", v |-> n]
PyFloat(m, e) == [t |-> "float", v |-> NormFloat(m, e)]
PyUnicode(bytes) == [t |-> "str", v |-> bytes]
PyList(items) == [t |-> "list", v |-> items]
PySet(items) == [t |-> "set", v |-> items]
(* A dict is its entry table: slots in insertion order, a deleted entry     *)
(* staying behind as a slot that is not live.                              *)
PyDict(slots) == [t |-> "dict", v |-> slots]
Slot(k, x, live) == [key |-> k, value |-> x, live |-> live]
PyOther == [t |-> "other", v |-> 0]
NULL == [t |-> "NULL", v |-> 0]

PyDict_Size(obj) == Len(SelectSeq(obj.v, LAMBDA s : s.live))

(* PyDict_Next(obj, &pos, &key, &value): the first live slot at index >=    *)
(* pos (0-based); pos becomes that index + 1.  found = 0 at the end.        *)
PyDict_Next(obj, pos) ==
    LET live == {i \in (pos + 1)..Len(obj.v) : obj.v[i].live}
    IN  IF live = {} THEN [found |-> 0, pos |-> pos, key |-> NULL, value |-> NULL]
        ELSE LET i == CHOOSE j \in live : \A k \in live : j <= k
             IN  [found |-> 1, pos |-> i, key |-> obj.v[i].key,
                  value |-> obj.v[i].value]

---------------------------------------------------------------------------
(* The serializer.  A serializer state r is [rc, buf, err]: rc < 0 once a   *)
(* step has failed, after which every later step is skipped (the source     *)
(* returns -1 at once).                                                    *)
Started(buf) == [rc |-> 0, buf |-> buf, err |-> NoError]

Failed(r, e) == [rc |-> -1, buf |-> r.buf, err |-> e]

Emit(r, str, len, mem) ==
    IF r.rc < 0 THEN r
    ELSE LET a == buffer_append(r.buf, str, len, mem)
         IN  IF a.rc < 0 THEN Failed(r, MemoryError)
             ELSE [rc |-> 0, buf |-> a.buf, err |-> r.err]

Spaces(n) == [i \in 1..n |-> ChSpace]

buffer_append_indent(r, indent_level, indent_size, mem) ==
    IF r.rc < 0 THEN r
    ELSE IF indent_size > 0 THEN r
    ELSE LET len == indent_level * indent_size
         IN  IF len >= 256
             THEN Failed(r, ValueError("Indentation level too large"))
             ELSE Emit(r, Spaces(len), len, mem)

(* One iteration of the loop of append_escaped_string. *)
EscapeByte(r, c, mem) ==
    CASE c = ChBackslash -> Emit(r, <<ChBackslash, ChBackslash>>, 2, mem)
      [] c = ChQuote     -> Emit(r, <<ChBackslash, ChQuote>>, 2, mem)
      [] c = ChBackspace -> Emit(r, <<ChBackslash, ChLowerB>>, 2, mem)
      [] c = ChFormFeed  -> Emit(r, <<ChBackslash, ChLowerF>>, 2, mem)
      [] c = ChNewline   -> Emit(r, <<ChBackslash, ChLowerN>>, 2, mem)
      [] c = ChReturn    -> Emit(r, <<ChBackslash, ChLowerR>>, 2, mem)
      [] c = ChTab       -> Emit(r, <<ChBackslash, ChLowerT>>, 2, mem)
      [] OTHER ->
           IF c < ChSpace \/ c = ChDel
           THEN LET hex == snprintf(6, FormatU04x(c))
                IN  Emit(r, hex, 5, mem)
           ELSE Emit(r, <<c>>, 1, mem)

RECURSIVE EscapeLoop(_, _, _, _)
EscapeLoop(r, data, i, mem) ==
    IF i > Len(data) \/ r.rc < 0 THEN r
    ELSE EscapeLoop(EscapeByte(r, data[i], mem), data, i + 1, mem)

append_escaped_string(r, str, mem) ==
    Emit(EscapeLoop(Emit(r, <<ChQuote>>, 1, mem), str.v, 1, mem),
         <<ChQuote>>, 1, mem)

KwNull == <<ChLowerN, ChLowerU, ChLowerL, ChLowerL>>
KwTrue == <<ChLowerT, ChLowerR, ChLowerU, ChLowerE>>
KwFalse == <<ChLowerF, ChLowerA, ChLowerL, ChLowerS, ChLowerE>>

Pretty(r, indent_size, str, mem) ==
    IF indent_size > 0 THEN Emit(r, str, Len(str), mem) ELSE r

RECURSIVE serialize_object(_, _, _, _, _)
RECURSIVE SerializeSequence(_, _, _, _, _, _)
RECURSIVE SerializeDict(_, _, _, _, _, _)

(* The loop over a list/tuple (total = len) or over a set's iterator       *)
(* (total = PySet_Size); i counts the items already written.               *)
SerializeSequence(r, obj, i, indent_level, indent_size, mem) ==
    IF r.rc < 0 \/ i >= Len(obj.v) THEN r
    ELSE LET r1 == IF indent_size > 0
                   THEN buffer_append_indent(r, indent_level + 1, indent_size, mem)
                   ELSE r
             r2 == serialize_object(r1, obj.v[i + 1], indent_level + 1,
                                    indent_size, mem)
             r3 == IF i < Len(obj.v) - 1
                   THEN Emit(r2, <<ChComma>>, 1, mem) ELSE r2
             r4 == Pretty(r3, indent_size, <<ChNewline>>, mem)
         IN  SerializeSequence(r4, obj, i + 1, indent_level, indent_size, mem)

(* The while (PyDict_Next(...)) loop of the dict branch. *)
SerializeDict(r, obj, pos, indent_level, indent_size, mem) ==
    LET nx == PyDict_Next(obj, pos)
    IN  IF r.rc < 0 \/ nx.found = 0 THEN r
        ELSE IF nx.key.t # "str"
        THEN Failed(r, TypeError("Only string keys are allowed in JSON objects"))
        ELSE LET r1 == IF indent_size > 0
                       THEN buffer_append_indent(r, indent_level + 1,
                                                 indent_size, mem)
                       ELSE r
                 r2 == append_escaped_string(r1, nx.key, mem)
                 r3 == Emit(r2, <<ChColon>>, 1, mem)
                 r4 == Pretty(r3, indent_size, <<ChSpace>>, mem)
                 r5 == serialize_object(r4, nx.value, indent_level + 1,
                                        indent_size, mem)
                 r6 == IF nx.pos < PyDict_Size(obj)
                       THEN Emit(r5, <<ChComma>>, 1, mem) ELSE r5
                 r7 == Pretty(r6, indent_size, <<ChNewline>>, mem)
             IN  SerializeDict(r7, obj, nx.pos, indent_level, indent_size, mem)

serialize_object(r, obj, indent_level, indent_size, mem) ==
    IF r.rc < 0 THEN r
    ELSE CASE obj.t = "null" -> Emit(r, KwNull, 4, mem)
      [] obj.t = "bool" ->
           Emit(r, IF obj.v THEN KwTrue ELSE KwFalse, IF obj.v THEN 4 ELSE 5, mem)
      [] obj.t = "int" ->
           LET s == PyLong_Str(obj.v) IN Emit(r, s, Len(s), mem)
      [] obj.t = "float" ->
           LET s == PyFloat_Repr(obj.v) IN Emit(r, s, Len(s), mem)
      [] obj.t = "str" -> append_escaped_string(r, obj, mem)
      [] obj.t \in {"list", "tuple", "set"} ->
           LET r1 == Emit(r, <<ChLBracket>>, 1, mem)
               r2 == Pretty(r1, indent_size, <<ChNewline>>, mem)
               r3 == SerializeSequence(r2, obj, 0, indent_level, indent_size, mem)
               r4 == IF indent_size > 0
                     THEN buffer_append_indent(r3, indent_level, indent_size, mem)
                     ELSE r3
           IN  Emit(r4, <<ChRBracket>>, 1, mem)
      [] obj.t = "dict" ->
           LET r1 == Emit(r, <<ChLBrace>>, 1, mem)
               r2 == Pretty(r1, indent_size, <<ChNewline>>, mem)
               r3 == SerializeDict(r2, obj, 0, indent_level, indent_size, mem)
               r4 == IF indent_size > 0
                     THEN buffer_append_indent(r3, indent_level, indent_size, mem)
                     ELSE r3
           IN  Emit(r4, <<ChRBrace>>, 1, mem)
      [] OTHER -> Failed(r, TypeError("Object of unsupported type"))

---------------------------------------------------------------------------
(* The C library's scanf conversions, applied to a NUL-terminated string.  *)
RECURSIVE CStr(_)
CStr(s) == IF s = << >> \/ Head(s) = ChNul THEN << >>
           ELSE <<Head(s)>> \o CStr(Tail(s))

RECURSIVE SkipSpace(_)
SkipSpace(s) == IF s # << >> /\ isspace(Head(s)) THEN SkipSpace(Tail(s)) ELSE s

isxdigit(c) == \/ isdigit(c)
               \/ (c >= ChLowerA /\ c <= ChLowerF)
               \/ (c >= ChUpperA /\ c <= ChUpperF)

HexValue(c) == IF isdigit(c) THEN c - ChZero
               ELSE IF c >= ChLowerA THEN c - ChLowerA + 10
               ELSE c - ChUpperA + 10

(* The longest prefix of s made of decimal (hex) digits. *)
RECURSIVE DigitRun(_)
DigitRun(s) == IF s # << >> /\ isdigit(Head(s))
               THEN <<Head(s)>> \o DigitRun(Tail(s)) ELSE << >>

RECURSIVE HexRun(_)
HexRun(s) == IF s # << >> /\ isxdigit(Head(s))
             THEN <<Head(s)>> \o HexRun(Tail(s)) ELSE << >>

RECURSIVE Number(_, _, _)
Number(digits, base, acc) ==
    IF digits = << >> THEN acc
    ELSE Number(Tail(digits), base, acc * base + HexValue(Head(digits)))

HasSign(s) == s # << >> /\ Head(s) \in {ChPlus, ChMinus}

Unsigned(t) == IF HasSign(t) THEN Tail(t) ELSE t

Negative(t) == t # << >> /\ Head(t) = ChMinus

Drop(s, n) == SubSeq(s, n + 1, Len(s))

(* An unsigned int (32 bits) as its two 16-bit halves. *)
Word(hi, lo) == [hi |-> hi, lo |-> lo]

(* strtoul's negation of a magnitude below 2^16, modulo 2^32. *)
Negate(mag) == IF mag = 0 THEN Word(0, 0) ELSE Word(65535, 65536 - mag)

(* The hex digits "%x" converts in u, the text after the sign.  A "0x"      *)
(* prefix that no hex digit follows is a matching failure by the C          *)
(* standard (no digits) and converts the 0 in glibc: lenient tells which    *)
(* library the build links.                                                *)
HexPrefixed(u) == Len(u) >= 2 /\ u[1] = ChZero /\ u[2] \in {ChLowerX, ChUpperX}

HexItem(u, lenient) ==
    IF HexPrefixed(u) /\ HexRun(Drop(u, 2)) # << >> THEN HexRun(Drop(u, 2))
    ELSE IF HexPrefixed(u) /\ ~lenient THEN << >>
    ELSE HexRun(u)

HexResult(neg, digits) ==
    IF digits = << >> THEN [n |-> 0, v |-> Word(0, 0)]
    ELSE [n |-> 1,
          v |-> IF neg THEN Negate(Number(digits, 16, 0))
                ELSE Word(0, Number(digits, 16, 0))]

ScanHex(t, lenient) ==
    IF t = << >> THEN [n |-> -1, v |-> Word(0, 0)]
    ELSE HexResult(Negative(t), HexItem(Unsigned(t), lenient))

(* sscanf(s, "%x", &codepoint) into an unsigned int: n is the return value  *)
(* (EOF = -1), v the value stored.  s holds at most 4 characters.           *)
sscanf_x(s, lenient) == ScanHex(SkipSpace(CStr(s)), lenient)

IntResult(neg, digits) ==
    IF digits = << >> THEN [n |-> 0, v |-> 0]
    ELSE [n |-> 1,
          v |-> IF neg THEN -Number(digits, 10, 0) ELSE Number(digits, 10, 0)]

ScanInt(t) ==
    IF t = << >> THEN [n |-> -1, v |-> 0]
    ELSE IntResult(Negative(t), DigitRun(Unsigned(t)))

(* sscanf(s, "%lld", &value). *)
sscanf_lld(s) == ScanInt(SkipSpace(CStr(s)))

(* sscanf(s, "%lf", &value): sign, digits with an optional point, optional  *)
(* exponent.  An exponent marker that no digit follows is a matching        *)
(* failure by the C standard and is dropped by glibc (lenient).             *)
(* neg, ip, fp: the sign, the digits before and after the point; marked:    *)
(* an exponent marker follows; eneg, ep: the exponent's sign and digits.    *)
FloatResult(neg, ip, fp, marked, eneg, ep, lenient) ==
    IF ip \o fp = << >> THEN [n |-> 0, v |-> <<0, 0>>]
    ELSE IF marked /\ ep = << >> /\ ~lenient THEN [n |-> 0, v |-> <<0, 0>>]
    ELSE [n |-> 1,
          v |-> NormFloat(IF neg THEN -Number(ip \o fp, 10, 0)
                          ELSE Number(ip \o fp, 10, 0),
                          (IF eneg THEN -Number(ep, 10, 0) ELSE Number(ep, 10, 0))
                            - Len(fp))]

ScanExponent(neg, ip, fp, rest, lenient) ==
    IF rest # << >> /\ Head(rest) \in {ChLowerE, ChUpperE}
    THEN FloatResult(neg, ip, fp, TRUE, Negative(Tail(rest)),
                     DigitRun(Unsigned(Tail(rest))), lenient)
    ELSE FloatResult(neg, ip, fp, FALSE, FALSE, << >>, lenient)

ScanFraction(neg, ip, rest, lenient) ==
    IF rest # << >> /\ Head(rest) = ChDot
    THEN ScanExponent(neg, ip, DigitRun(Tail(rest)),
                      Drop(Tail(rest), Len(DigitRun(Tail(rest)))), lenient)
    ELSE ScanExponent(neg, ip, << >>, rest, lenient)

ScanMantissa(neg, u, lenient) ==
    ScanFraction(neg, DigitRun(u), Drop(u, Len(DigitRun(u))), lenient)

ScanFloat(t, lenient) ==
    IF t = << >> THEN [n |-> -1, v |-> <<0, 0>>]
    ELSE ScanMantissa(Negative(t), Unsigned(t), lenient)

sscanf_lf(s, lenient) == ScanFloat(SkipSpace(CStr(s)), lenient)

---------------------------------------------------------------------------
(* Bytes and UTF-8. *)
RECURSIVE BitOr(_, _)
BitOr(a, b) == IF a = 0 THEN b ELSE IF b = 0 THEN a
               ELSE 2 * BitOr(a \div 2, b \div 2)
                    + (IF a % 2 = 1 \/ b % 2 = 1 THEN 1 ELSE 0)

(* Storing an int into a char keeps its low 8 bits. *)
ToChar(x) == x % 256

(* codepoint >> k for k in {6, 12}, its low 8 bits kept: they depend on    *)
(* the low 20 bits of the codepoint only.                                  *)
ShiftRight(codepoint, k) ==
    (((codepoint.hi % 16) * 65536 + codepoint.lo) \div Pow(2, k)) % 256

(* The utf8[] bytes the \u branch of parse_json_string appends. *)
EncodeCodepoint(codepoint) ==
    IF codepoint.hi = 0 /\ codepoint.lo <= 127 THEN <<ToChar(codepoint.lo)>>
    ELSE IF codepoint.hi = 0 /\ codepoint.lo <= 2047
    THEN <<ToChar(BitOr(192, ShiftRight(codepoint, 6))),
           ToChar(BitOr(128, codepoint.lo % 64))>>
    ELSE <<ToChar(BitOr(224, ShiftRight(codepoint, 12))),
           ToChar(BitOr(128, ShiftRight(codepoint, 6) % 64)),
           ToChar(BitOr(128, codepoint.lo % 64))>>

IsCont(b, i) == i <= Len(b) /\ b[i] >= 128 /\ b[i] <= 191

Between(b, i, lo, hi) == i <= Len(b) /\ b[i] >= lo /\ b[i] <= hi

(* Whether the host's UTF-8 decoder accepts the bytes from index i on. *)
RECURSIVE Utf8Valid(_, _)
Utf8Valid(b, i) ==
    IF i > Len(b) THEN TRUE
    ELSE LET c == b[i]
         IN  CASE c < 128 -> Utf8Valid(b, i + 1)
               [] c >= 194 /\ c <= 223 -> IsCont(b, i + 1) /\ Utf8Valid(b, i + 2)
               [] c = 224 -> Between(b, i + 1, 160, 191) /\ IsCont(b, i + 2)
                             /\ Utf8Valid(b, i + 3)
               [] c = 237 -> Between(b, i + 1, 128, 159) /\ IsCont(b, i + 2)
                             /\ Utf8Valid(b, i + 3)
               [] c >= 225 /\ c <= 239 /\ c # 237 ->
                    IsCont(b, i + 1) /\ IsCont(b, i + 2) /\ Utf8Valid(b, i + 3)
               [] c = 240 -> Between(b, i + 1, 144, 191) /\ IsCont(b, i + 2)
                             /\ IsCont(b, i + 3) /\ Utf8Valid(b, i + 4)
               [] c >= 241 /\ c <= 243 ->
                    IsCont(b, i + 1) /\ IsCont(b, i + 2) /\ IsCont(b, i + 3)
                    /\ Utf8Valid(b, i + 4)
               [] c = 244 -> Between(b, i + 1, 128, 143) /\ IsCont(b, i + 2)
                             /\ IsCont(b, i + 3) /\ Utf8Valid(b, i + 4)
               [] OTHER -> FALSE

(* PyUnicode_FromStringAndSize(buf.buffer, buf.length): a str, or NULL and  *)
(* a UnicodeDecodeError when the bytes are not UTF-8.                       *)
PyUnicode_FromStringAndSize(buf) ==
    IF Utf8Valid(BufferText(buf), 1) THEN PyUnicode(BufferText(buf)) ELSE NULL

UnicodeDecodeError == [kind |-> "UnicodeDecodeError", msg |-> "invalid utf-8"]

---------------------------------------------------------------------------
(* Heap accounting: the objects a value owns (None, True and False are      *)
(* shared singletons and own nothing).                                     *)
RECURSIVE CountObjects(_)
RECURSIVE CountItems(_, _)
RECURSIVE CountSlots(_, _)
CountItems(items, i) ==
    IF i > Len(items) THEN 0
    ELSE CountObjects(items[i]) + CountItems(items, i + 1)

CountSlots(slots, i) ==
    IF i > Len(slots) THEN 0
    ELSE (IF slots[i].live
          THEN CountObjects(slots[i].key) + CountObjects(slots[i].value)
          ELSE 0) + CountSlots(slots, i + 1)

CountObjects(x) ==
    CASE x.t \in {"NULL", "null", "bool"} -> 0
      [] x.t \in {"int", "float", "str", "other"} -> 1
      [] x.t \in {"list", "tuple", "set"} -> 1 + CountItems(x.v, 1)
      [] x.t = "dict" -> 1 + CountSlots(x.v, 1)

(* A release that frees nothing: the heap keeps x. *)
Py_DECREF_leak(n, x) == n

(* Py_DECREF of the last reference to x, on a heap of n live objects. *)
Py_DECREF(n, x) == n - CountObjects(x)

PyList_Append(list, x) == PyList(Append(list.v, x))

(* PyDict_SetItem: the value of an equal key is replaced in place, a new    *)
(* key gets a new slot at the end.                                         *)
HasKey(dict, k) == \E i \in 1..Len(dict.v) : dict.v[i].live /\ dict.v[i].key = k

PyDict_GetItem(dict, k) ==
    dict.v[CHOOSE i \in 1..Len(dict.v) : dict.v[i].live /\ dict.v[i].key = k].value

PyDict_SetItem(dict, k, x) ==
    IF HasKey(dict, k)
    THEN PyDict([i \in 1..Len(dict.v) |->
                    IF dict.v[i].live /\ dict.v[i].key = k
                    THEN Slot(dict.v[i].key, x, TRUE) ELSE dict.v[i]])
    ELSE PyDict(Append(dict.v, Slot(k, x, TRUE)))

---------------------------------------------------------------------------
(* The parser cursor (JsonParser): ptr is the text, len its length, pos     *)
(* the 0-based position.                                                   *)
RECURSIVE parser_skip_whitespace(_, _)
parser_skip_whitespace(text, p) ==
    IF p < Len(text) /\ isspace(text[p + 1])
    THEN parser_skip_whitespace(text, p + 1) ELSE p

parser_peek(text, p) == IF p < Len(text) THEN text[p + 1] ELSE ChNul

(* A parser_next that leaves the cursor where it is. *)
NextPos_stuck(text, p) == p

(* parser_next returns parser_peek's character and moves to NextPos. *)
NextPos(text, p) == IF p < Len(text) THEN p + 1 ELSE p

(* A keyword match without the test that the keyword fits in the text. *)
MatchKeyword_unguarded(text, p, kw) == TRUE

(* strncmp(ptr + pos, kw, n) == 0 guarded by pos + n <= len. *)
MatchKeyword(text, p, kw) ==
    p + Len(kw) <= Len(text) /\ SubSeq(text, p + 1, p + Len(kw)) = kw

StringBufferSize == 256
NumberBufferSize == 32
OutputBufferSize == 1024

---------------------------------------------------------------------------
(* Bounds of the model and the inputs drawn within them.                   *)
MaxStrLen == 2
MaxElems == 2
MaxSlots == 3
MaxTokens == 5
MaxNumLen == 5
MaxPlain == 1

(* The nested calls of parse_json_value the host's call stack has room for  *)
(* (the code has no depth guard of its own).                               *)
StackFrames == 4

SeqsUpTo(S, n) == UNION {[1..k -> S] : k \in 0..n}

RECURSIVE Flatten(_)
Flatten(ss) == IF ss = << >> THEN << >> ELSE Head(ss) \o Flatten(Tail(ss))

(* Objects handed to dumps. *)
StrAlphabet == {ChNul, ChUnitSep, ChNewline, ChQuote, ChBackslash, ChLowerA, ChDel}

Strings == {PyUnicode(b) : b \in SeqsUpTo(StrAlphabet, MaxStrLen)}

Scalars == {PyNone, PyBool(TRUE), PyBool(FALSE), PyLong(0), PyLong(7), PyLong(-12),
            PyFloat(25, -1), PyFloat(1, 0), PyFloat(-5, -1), PyOther} \cup Strings

KeyOf(i) == PyUnicode(<<ChLowerA + (i - 1)>>)

Hashables == {PyLong(1), PyNone, PyUnicode(<<ChLowerA>>)}

Elems == Hashables \cup {PyList(<< >>), PyList(<<PyLong(1)>>),
                         PyDict(<<Slot(KeyOf(1), PyLong(1), TRUE)>>)}

Lists == {PyList(items) : items \in SeqsUpTo(Elems, MaxElems)}

(* A set of n members is met in some iteration order. *)
Sets == {PySet(items) : items \in
           {q \in SeqsUpTo(Hashables, MaxElems) :
              \A i, j \in 1..Len(q) : i # j => q[i] # q[j]}}

DictValues == {PyLong(1), PyList(<<PyLong(1)>>),
               PyDict(<<Slot(KeyOf(1), PyLong(1), TRUE)>>)}

(* Entry tables of up to MaxSlots slots, any of them deleted. *)
Dicts == {PyDict([i \in 1..k |-> Slot(KeyOf(i), c[i][1], c[i][2])]) :
            k \in 0..MaxSlots, c \in [1..MaxSlots -> DictValues \X BOOLEAN]}
         \cup {PyDict(<<Slot(PyLong(1), PyLong(1), TRUE)>>)}

Values == Scalars \cup Lists \cup Sets \cup Dicts

Indents == {-1, 0, 2}

(* Texts handed to loads. *)
Tokens == {<<ChLBracket>>, <<ChRBracket>>, <<ChLBrace>>, <<ChRBrace>>,
           <<ChComma>>, <<ChZero + 1>>, <<ChSpace>>,
           <<ChQuote, ChLowerA, ChQuote>>,
           <<ChQuote, ChLowerA, ChQuote, ChColon>>}

TokenTexts == {Flatten(ts) : ts \in SeqsUpTo(Tokens, MaxTokens)}

NumAlphabet == {ChZero, ChZero + 1, ChMinus, ChPlus, ChDot, ChLowerE, ChUpperE}

NumberTexts == SeqsUpTo(NumAlphabet, MaxNumLen)

(* A string token: plain characters, then one escape, closed or not. *)
EscapeChars == {ChQuote, ChBackslash, ChSlash, ChLowerB, ChLowerF, ChLowerN,
                ChLowerR, ChLowerT, ChLowerZ}

HexAlphabet == {ChZero, ChZero + 1, ChLowerA, ChUpperF, ChLowerZ, ChSpace, ChMinus,
                ChLowerX, ChQuote}

Escapes == {<<ChBackslash, c>> : c \in EscapeChars}
           \cup {<<ChBackslash, ChLowerU>> \o h : h \in SeqsUpTo(HexAlphabet, 4)}
           \cup {<< >>, <<ChBackslash>>}

StringTexts == {<<ChQuote>> \o pl \o es \o cl :
                  pl \in SeqsUpTo({ChLowerA}, MaxPlain), es \in Escapes,
                  cl \in {<< >>, <<ChQuote>>}}

KeywordTexts == {SubSeq(kw, 1, Min(k, Len(kw))) \o tl :
                   kw \in {KwTrue, KwFalse, KwNull}, k \in 1..5,
                   tl \in {<< >>, <<ChSpace>>, <<ChLowerX>>}}

(* One value with any 7-bit character before or after it. *)
ProbeTexts == {<<c, ChZero + 1>> : c \in 0..127} \cup {<<ChZero + 1, c>> : c \in 0..127}

Texts == TokenTexts \cup NumberTexts \cup StringTexts \cup KeywordTexts
         \cup ProbeTexts

---------------------------------------------------------------------------
VARIABLES
    call,      \* the entry point that runs: "dumps" or "loads"
    obj,       \* dumps: the object to serialize (kept for the reload)
    indent,    \* dumps: indent_size
    ptr,       \* JsonParser.ptr, the text (len = Len(ptr))
    pos,       \* JsonParser.pos
    pc,        \* where the call stands
    stack,     \* the active parse_json_array / parse_json_object calls
    buf,       \* the scratch JsonBuffer of parse_json_string / _number
    is_float,  \* parse_json_number's flag
    ret,       \* what the function that just returned has returned
    err,       \* the host's error indicator
    result,    \* what the entry point returned (NULL: nothing)
    live       \* objects the call created and has not released

vars == <<call, obj, indent, ptr, pos, pc, stack, buf, is_float, ret, err,
          result, live>>

Frame(fn, agg, key) == [fn |-> fn, agg |-> agg, key |-> key]

Top == stack[Len(stack)]
Pop == SubSeq(stack, 1, Len(stack) - 1)
Push(f) == Append(stack, f)
ReplaceTop(f) == [stack EXCEPT ![Len(stack)] = f]
len == Len(ptr)

Init ==
    /\ \/ call = "dumps" /\ obj \in Values /\ indent \in Indents /\ ptr = << >>
       \/ call = "loads" /\ obj = NULL /\ indent = 0 /\ ptr \in Texts
    /\ pos = 0
    /\ pc = "call"
    /\ stack = << >>
    /\ buf = NoBuffer
    /\ is_float = 0
    /\ ret = NULL
    /\ err = NoError
    /\ result = NULL
    /\ live = 0

---------------------------------------------------------------------------
(* A function returns x with the error indicator e to its caller. *)
Returns(x, e) == ret' = x /\ err' = e /\ pc' = "ret"

(* fastjson_dumps / fastjson_encode (their bodies are the same): the whole  *)
(* call.  m0: PyMem_Malloc of the output buffer succeeds; mem: so does      *)
(* PyMem_Realloc.                                                          *)
fastjson_dumps ==
    /\ pc = "call" /\ call = "dumps"
    /\ \E m0, mem \in BOOLEAN :
         LET b0 == buffer_init(OutputBufferSize, m0)
             r == serialize_object(Started(b0.buf), obj, 0, indent, mem)
         IN  IF indent < 0
             THEN result' = NULL
                  /\ err' = ValueError("Indent size cannot be negative")
             ELSE IF b0.rc < 0
             THEN result' = NULL /\ err' = MemoryError
             ELSE IF r.rc < 0
             THEN result' = NULL /\ err' = r.err
             ELSE result' = PyUnicode_FromStringAndSize(r.buf)
                  /\ err' = IF PyUnicode_FromStringAndSize(r.buf) = NULL
                            THEN UnicodeDecodeError ELSE NoError
    /\ buf' = buffer_free(buf)
    /\ pc' = "returned"
    /\ UNCHANGED <<call, obj, indent, ptr, pos, stack, is_float, ret, live>>

(* The text dumps returned is handed to loads. *)
Reload ==
    /\ pc = "returned" /\ call = "dumps" /\ result # NULL
    /\ call' = "loads"
    /\ ptr' = result.v
    /\ result' = NULL
    /\ pc' = "call"
    /\ UNCHANGED <<obj, indent, pos, stack, buf, is_float, ret, err, live>>

(* fastjson_loads / fastjson_load up to the call of parse_json_value. *)
fastjson_loads ==
    /\ pc = "call" /\ call = "loads"
    /\ pos' = 0
    /\ pc' = "value"
    /\ UNCHANGED <<call, obj, indent, ptr, stack, buf, is_float, ret, err,
                   result, live>>

(* A call of parse_json_value below StackFrames open arrays and objects:   *)
(* the recursion has used up the call stack and the process is killed.     *)
stack_overflow ==
    /\ pc = "value"
    /\ Len(stack) >= StackFrames
    /\ pc' = "crashed"
    /\ UNCHANGED <<call, obj, indent, ptr, pos, stack, buf, is_float, ret, err,
                   result, live>>

(* parse_json_value. *)
parse_json_value ==
    /\ pc = "value"
    /\ Len(stack) < StackFrames
    /\ LET p == parser_skip_whitespace(ptr, pos)
           c == parser_peek(ptr, p)
           kw == CASE c = ChLowerT -> KwTrue
                   [] c = ChLowerF -> KwFalse
                   [] OTHER -> KwNull
           value == CASE c = ChLowerT -> PyBool(TRUE)
                      [] c = ChLowerF -> PyBool(FALSE)
                      [] OTHER -> PyNone
       IN  IF ~(p < len)
           THEN pos' = p /\ Returns(NULL, ValueError("Unexpected end of JSON"))
           ELSE IF c = ChQuote
           THEN pos' = p /\ pc' = "string" /\ UNCHANGED <<ret, err>>
           ELSE IF isdigit(c) \/ c = ChMinus \/ c = ChPlus
           THEN pos' = p /\ pc' = "number" /\ UNCHANGED <<ret, err>>
           ELSE IF c = ChLBrace
           THEN pos' = p /\ pc' = "object" /\ UNCHANGED <<ret, err>>
           ELSE IF c = ChLBracket
           THEN pos' = p /\ pc' = "array" /\ UNCHANGED <<ret, err>>
           ELSE IF c \in {ChLowerT, ChLowerF, ChLowerN}
           THEN IF MatchKeyword(ptr, p, kw)
                THEN pos' = p + Len(kw) /\ Returns(value, NoError)
                ELSE pos' = p /\ Returns(NULL, ValueError("Invalid JSON token"))
           ELSE pos' = p /\ Returns(NULL, ValueError("Invalid JSON token"))
    /\ UNCHANGED <<call, obj, indent, ptr, stack, buf, is_float, result, live>>

(* parse_json_string up to its loop. *)
parse_json_string ==
    /\ pc = "string"
    /\ pos' = NextPos(ptr, pos)
    /\ \E mem \in BOOLEAN :
         LET b == buffer_init(StringBufferSize, mem)
         IN  IF parser_peek(ptr, pos) # ChQuote
             THEN buf' = buf /\ Returns(NULL, ValueError("Expected string start"))
             ELSE IF b.rc < 0
             THEN buf' = buf /\ Returns(NULL, MemoryError)
             ELSE buf' = b.buf /\ pc' = "string_loop" /\ UNCHANGED <<ret, err>>
    /\ UNCHANGED <<call, obj, indent, ptr, stack, is_float, result, live>>

(* The character an escape letter stands for. *)
Unescape(c) ==
    CASE c = ChLowerB -> ChBackspace
      [] c = ChLowerF -> ChFormFeed
      [] c = ChLowerN -> ChNewline
      [] c = ChLowerR -> ChReturn
      [] c = ChLowerT -> ChTab
      [] OTHER -> c

(* One iteration of the while loop of parse_json_string, from position p    *)
(* with scratch buffer b: what it does (go on, return, fail), the new       *)
(* position and buffer, the value returned and the error set.              *)
StringStep(text, p, b, mem, lenient) ==
    LET c == parser_peek(text, p)
        p1 == NextPos(text, p)
        c2 == parser_peek(text, p1)
        p2 == NextPos(text, p1)
        hex == SubSeq(text, p2 + 1, p2 + 4) \o <<ChNul>>
        scan == sscanf_x(hex, lenient)
        utf8 == EncodeCodepoint(scan.v)
        bytes == IF c # ChBackslash THEN <<c>>
                 ELSE IF c2 = ChLowerU THEN utf8
                 ELSE <<Unescape(c2)>>
        at == IF c # ChBackslash THEN p1
              ELSE IF c2 = ChLowerU THEN p2 + 4 ELSE p2
        a == buffer_append(b, bytes, Len(bytes), mem)
        str == PyUnicode_FromStringAndSize(b)
        Fail(q, e) == [do |-> "fail", pos |-> q, buf |-> buffer_free(b),
                       ret |-> NULL, err |-> e]
    IN  IF ~(p < Len(text)) THEN Fail(p, ValueError("Unterminated string"))
        ELSE IF c = ChQuote
        THEN IF ~mem
             THEN [do |-> "return", pos |-> p1, buf |-> buffer_free(b),
                   ret |-> NULL, err |-> MemoryError]
             ELSE [do |-> "return", pos |-> p1, buf |-> buffer_free(b),
                   ret |-> str,
                   err |-> IF str = NULL THEN UnicodeDecodeError ELSE NoError]
        ELSE IF c = ChBackslash /\ p1 >= Len(text)
        THEN Fail(p1, ValueError("Unexpected end of string"))
        ELSE IF c = ChBackslash /\ c2 = ChLowerU /\ p2 + 4 > Len(text)
        THEN Fail(p2, ValueError("Invalid unicode escape"))
        ELSE IF c = ChBackslash /\ c2 = ChLowerU /\ scan.n # 1
        THEN Fail(p2 + 4, ValueError("Invalid unicode escape"))
        ELSE IF c = ChBackslash
                /\ c2 \notin {ChQuote, ChBackslash, ChSlash, ChLowerB, ChLowerF,
                              ChLowerN, ChLowerR, ChLowerT, ChLowerU}
        THEN Fail(p2, ValueError("Invalid escape sequence"))
        ELSE IF a.rc < 0 THEN Fail(at, MemoryError)
        ELSE [do |-> "continue", pos |-> at, buf |-> a.buf, ret |-> NULL,
              err |-> NoError]

string_loop ==
    /\ pc = "string_loop"
    /\ \E mem, lenient \in BOOLEAN :
         LET st == StringStep(ptr, pos, buf, mem, lenient)
         IN  /\ pos' = st.pos
             /\ buf' = st.buf
             /\ IF st.do = "continue" THEN UNCHANGED <<pc, ret, err, live>>
                ELSE /\ Returns(st.ret, st.err)
                     /\ live' = live + CountObjects(st.ret)
    /\ UNCHANGED <<call, obj, indent, ptr, stack, is_float, result>>

(* parse_json_number up to its loop. *)
parse_json_number ==
    /\ pc = "number"
    /\ \E mem \in BOOLEAN :
         LET b == buffer_init(NumberBufferSize, mem)
         IN  IF b.rc < 0
             THEN buf' = buf /\ is_float' = is_float /\ Returns(NULL, MemoryError)
             ELSE buf' = b.buf /\ is_float' = 0 /\ pc' = "number_loop"
                  /\ UNCHANGED <<ret, err>>
    /\ UNCHANGED <<call, obj, indent, ptr, pos, stack, result, live>>

IsNumberChar(c) ==
    isdigit(c) \/ c \in {ChMinus, ChPlus, ChDot, ChLowerE, ChUpperE}

(* One iteration of the scanning loop of parse_json_number, or its end. *)
number_loop ==
    /\ pc = "number_loop"
    /\ \E mem \in BOOLEAN :
         LET c == parser_peek(ptr, pos)
             a == buffer_append_char(buf, c, mem)
         IN  IF pos < len /\ IsNumberChar(c)
             THEN /\ is_float' = IF c \in {ChDot, ChLowerE, ChUpperE} THEN 1
                                 ELSE is_float
                  /\ pos' = NextPos(ptr, pos)
                  /\ IF a.rc < 0
                     THEN buf' = buffer_free(buf) /\ Returns(NULL, MemoryError)
                     ELSE buf' = a.buf /\ UNCHANGED <<pc, ret, err>>
             ELSE pc' = "number_convert"
                  /\ UNCHANGED <<pos, buf, is_float, ret, err>>
    /\ UNCHANGED <<call, obj, indent, ptr, stack, result, live>>

(* The conversion of the scanned text: the value, or NULL and the error.    *)
(* mem: PyFloat_FromDouble / PyLong_FromLongLong gets its memory.           *)
NumberValue(b, float, lenient, mem) ==
    LET f == sscanf_lf(b.data, lenient)
        i == sscanf_lld(b.data)
    IN  IF float = 1
        THEN IF f.n # 1 THEN [ret |-> NULL, err |-> ValueError("Invalid float")]
             ELSE IF ~mem THEN [ret |-> NULL, err |-> MemoryError]
             ELSE [ret |-> [t |-> "float", v |-> f.v], err |-> NoError]
        ELSE IF i.n # 1 THEN [ret |-> NULL, err |-> ValueError("Invalid integer")]
             ELSE IF ~mem THEN [ret |-> NULL, err |-> MemoryError]
             ELSE [ret |-> PyLong(i.v), err |-> NoError]

number_convert ==
    /\ pc = "number_convert"
    /\ \E lenient, mem \in BOOLEAN :
         LET r == NumberValue(buf, is_float, lenient, mem)
         IN  Returns(r.ret, r.err) /\ live' = live + CountObjects(r.ret)
    /\ buf' = buffer_free(buf)
    /\ UNCHANGED <<call, obj, indent, ptr, pos, stack, is_float, result>>

---------------------------------------------------------------------------
(* parse_json_array up to its loop: the '[', PyList_New, the first skip.   *)
parse_json_array ==
    /\ pc = "array"
    /\ \E mem \in BOOLEAN :
         LET p1 == NextPos(ptr, pos)
             p2 == parser_skip_whitespace(ptr, p1)
             list == PyList(<< >>)
         IN  IF parser_peek(ptr, pos) # ChLBracket
             THEN pos' = p1 /\ Returns(NULL, ValueError("Expected array start"))
                  /\ UNCHANGED <<stack, live>>
             ELSE IF ~mem
             THEN pos' = p1 /\ Returns(NULL, MemoryError)
                  /\ UNCHANGED <<stack, live>>
             ELSE IF ~(p2 < len)
             THEN IF parser_peek(ptr, p2) = ChRBracket
                  THEN pos' = NextPos(ptr, p2) /\ Returns(list, NoError)
                       /\ live' = live + 1 /\ UNCHANGED stack
                  ELSE pos' = p2
                       /\ Returns(NULL, ValueError("Expected ']' or value"))
                       /\ live' = Py_DECREF(live + 1, list) /\ UNCHANGED stack
             ELSE pos' = p2 /\ stack' = Push(Frame("array", list, NULL))
                  /\ live' = live + 1 /\ pc' = "array_loop"
                  /\ UNCHANGED <<ret, err>>
    /\ UNCHANGED <<call, obj, indent, ptr, buf, is_float, result>>

(* The loop test of parse_json_array: into parse_json_value for the next    *)
(* element, or out of the loop to the closing test.                        *)
array_loop ==
    /\ pc = "array_loop"
    /\ IF pos < len /\ parser_peek(ptr, pos) # ChRBracket
       THEN pc' = "value" /\ UNCHANGED <<pos, stack, ret, err, live>>
       ELSE IF parser_peek(ptr, pos) = ChRBracket
       THEN pos' = NextPos(ptr, pos) /\ stack' = Pop
            /\ Returns(Top.agg, NoError) /\ UNCHANGED live
       ELSE pos' = pos /\ stack' = Pop
            /\ Returns(NULL, ValueError("Unterminated array"))
            /\ live' = Py_DECREF(live, Top.agg)
    /\ UNCHANGED <<call, obj, indent, ptr, buf, is_float, result>>

(* The loop body of parse_json_array after parse_json_value has returned.   *)
array_element ==
    /\ pc = "ret" /\ stack # << >> /\ Top.fn = "array"
    /\ \E mem \in BOOLEAN :
         LET list == PyList_Append(Top.agg, ret)
             p == parser_skip_whitespace(ptr, pos)
             p3 == parser_skip_whitespace(ptr, NextPos(ptr, p))
         IN  IF ret = NULL
             THEN pos' = pos /\ stack' = Pop /\ UNCHANGED <<ret, err, pc>>
                  /\ live' = Py_DECREF(live, Top.agg)
             ELSE IF ~mem
             THEN pos' = pos /\ stack' = Pop /\ Returns(NULL, MemoryError)
                  /\ live' = Py_DECREF(Py_DECREF(live, ret), Top.agg)
             ELSE IF ~(p < len)
             THEN pos' = p /\ stack' = Pop
                  /\ Returns(NULL, ValueError("Unexpected end of array"))
                  /\ live' = Py_DECREF(live, list)
             ELSE IF parser_peek(ptr, p) = ChRBracket
             THEN pos' = NextPos(ptr, p) /\ stack' = Pop
                  /\ Returns(list, NoError) /\ UNCHANGED live
             ELSE IF parser_peek(ptr, p) # ChComma
             THEN pos' = p /\ stack' = Pop
                  /\ Returns(NULL, ValueError("Expected ',' or ']'"))
                  /\ live' = Py_DECREF(live, list)
             ELSE IF ~(p3 < len)
             THEN pos' = p3 /\ stack' = Pop
                  /\ Returns(NULL, ValueError("Unexpected end of array"))
                  /\ live' = Py_DECREF(live, list)
             ELSE pos' = p3 /\ stack' = ReplaceTop(Frame("array", list, NULL))
                  /\ pc' = "array_loop" /\ ret' = NULL
                  /\ UNCHANGED <<err, live>>
    /\ UNCHANGED <<call, obj, indent, ptr, buf, is_float, result>>

(* parse_json_object up to its loop: the '{', PyDict_New, the first skip.  *)
parse_json_object ==
    /\ pc = "object"
    /\ \E mem \in BOOLEAN :
         LET p1 == NextPos(ptr, pos)
             p2 == parser_skip_whitespace(ptr, p1)
             dict == PyDict(<< >>)
         IN  IF parser_peek(ptr, pos) # ChLBrace
             THEN pos' = p1 /\ Returns(NULL, ValueError("Expected object start"))
                  /\ UNCHANGED <<stack, live>>
             ELSE IF ~mem
             THEN pos' = p1 /\ Returns(NULL, MemoryError)
                  /\ UNCHANGED <<stack, live>>
             ELSE IF ~(p2 < len)
             THEN IF parser_peek(ptr, p2) = ChRBrace
                  THEN pos' = NextPos(ptr, p2) /\ Returns(dict, NoError)
                       /\ live' = live + 1 /\ UNCHANGED stack
                  ELSE pos' = p2
                       /\ Returns(NULL, ValueError("Expected '}' or key"))
                       /\ live' = Py_DECREF(live + 1, dict) /\ UNCHANGED stack
             ELSE pos' = p2 /\ stack' = Push(Frame("object", dict, NULL))
                  /\ live' = live + 1 /\ pc' = "object_loop"
                  /\ UNCHANGED <<ret, err>>
    /\ UNCHANGED <<call, obj, indent, ptr, buf, is_float, result>>

(* The loop test of parse_json_object and the test of the key's quote:      *)
(* into parse_json_string for the key, or out of the loop.                 *)
object_loop ==
    /\ pc = "object_loop"
    /\ IF pos < len /\ parser_peek(ptr, pos) # ChRBrace
       THEN IF parser_peek(ptr, pos) # ChQuote
            THEN pos' = pos /\ stack' = Pop
                 /\ Returns(NULL, ValueError("Expected string key"))
                 /\ live' = Py_DECREF(live, Top.agg)
            ELSE pc' = "string" /\ UNCHANGED <<pos, stack, ret, err, live>>
       ELSE IF parser_peek(ptr, pos) = ChRBrace
       THEN pos' = NextPos(ptr, pos) /\ stack' = Pop
            /\ Returns(Top.agg, NoError) /\ UNCHANGED live
       ELSE pos' = pos /\ stack' = Pop
            /\ Returns(NULL, ValueError("Unterminated object"))
            /\ live' = Py_DECREF(live, Top.agg)
    /\ UNCHANGED <<call, obj, indent, ptr, buf, is_float, result>>

(* The loop body of parse_json_object after parse_json_string has         *)
(* returned the key: the ':' and the skip before the value.                *)
object_key ==
    /\ pc = "ret" /\ stack # << >> /\ Top.fn = "object" /\ Top.key = NULL
    /\ LET p == parser_skip_whitespace(ptr, pos)
           p2 == parser_skip_whitespace(ptr, NextPos(ptr, p))
       IN  IF ret = NULL
           THEN pos' = pos /\ stack' = Pop /\ UNCHANGED <<ret, err, pc>>
                /\ live' = Py_DECREF(live, Top.agg)
           ELSE IF ~(p < len) \/ parser_peek(ptr, p) # ChColon
           THEN pos' = p /\ stack' = Pop
                /\ Returns(NULL, ValueError("Expected ':'"))
                /\ live' = Py_DECREF(Py_DECREF(live, ret), Top.agg)
           ELSE IF ~(p2 < len)
           THEN pos' = p2 /\ stack' = Pop
                /\ Returns(NULL, ValueError("Expected value"))
                /\ live' = Py_DECREF(Py_DECREF(live, ret), Top.agg)
           ELSE pos' = p2 /\ stack' = ReplaceTop(Frame("object", Top.agg, ret))
                /\ pc' = "value" /\ ret' = NULL /\ UNCHANGED <<err, live>>
    /\ UNCHANGED <<call, obj, indent, ptr, buf, is_float, result>>

(* The objects PyDict_SetItem(dict, k, x) releases: the value it replaces;  *)
(* the caller's Py_DECREF(key) then frees a key the dict did not keep.      *)
Replaced(dict, k) ==
    IF HasKey(dict, k) THEN CountObjects(PyDict_GetItem(dict, k)) + CountObjects(k)
    ELSE 0

(* The loop body of parse_json_object after parse_json_value has returned   *)
(* the member's value.                                                     *)
object_member ==
    /\ pc = "ret" /\ stack # << >> /\ Top.fn = "object" /\ Top.key # NULL
    /\ \E mem \in BOOLEAN :
         LET dict == PyDict_SetItem(Top.agg, Top.key, ret)
             kept == live - Replaced(Top.agg, Top.key)
             p == parser_skip_whitespace(ptr, pos)
             p3 == parser_skip_whitespace(ptr, NextPos(ptr, p))
         IN  IF ret = NULL
             THEN pos' = pos /\ stack' = Pop /\ UNCHANGED <<ret, err, pc>>
                  /\ live' = Py_DECREF(Py_DECREF(live, Top.key), Top.agg)
             ELSE IF ~mem
             THEN pos' = pos /\ stack' = Pop /\ Returns(NULL, MemoryError)
                  /\ live' = Py_DECREF(Py_DECREF(Py_DECREF(live, Top.key), ret),
                                       Top.agg)
             ELSE IF ~(p < len)
             THEN pos' = p /\ stack' = Pop
                  /\ Returns(NULL, ValueError("Unexpected end of object"))
                  /\ live' = Py_DECREF(kept, dict)
             ELSE IF parser_peek(ptr, p) = ChRBrace
             THEN pos' = NextPos(ptr, p) /\ stack' = Pop
                  /\ Returns(dict, NoError) /\ live' = kept
             ELSE IF parser_peek(ptr, p) # ChComma
             THEN pos' = p /\ stack' = Pop
                  /\ Returns(NULL, ValueError("Expected ',' or '}'"))
                  /\ live' = Py_DECREF(kept, dict)
             ELSE IF ~(p3 < len)
             THEN pos' = p3 /\ stack' = Pop
                  /\ Returns(NULL, ValueError("Unexpected end of object"))
                  /\ live' = Py_DECREF(kept, dict)
             ELSE pos' = p3 /\ stack' = ReplaceTop(Frame("object", dict, NULL))
                  /\ pc' = "object_loop" /\ ret' = NULL /\ live' = kept
                  /\ UNCHANGED err
    /\ UNCHANGED <<call, obj, indent, ptr, buf, is_float, result>>

(* fastjson_loads / fastjson_load after parse_json_value has returned: the  *)
(* test for data after the value.                                          *)
loads_return ==
    /\ pc = "ret" /\ stack = << >>
    /\ LET p == parser_skip_whitespace(ptr, pos)
       IN  IF ret = NULL
           THEN pos' = pos /\ result' = NULL /\ UNCHANGED <<err, live>>
           ELSE IF p < len
           THEN pos' = p /\ result' = NULL
                /\ err' = ValueError("Extra data after JSON")
                /\ live' = Py_DECREF(live, ret)
           ELSE pos' = p /\ result' = ret /\ UNCHANGED <<err, live>>
    /\ pc' = "returned"
    /\ ret' = NULL
    /\ UNCHANGED <<call, obj, indent, ptr, stack, buf, is_float>>

Next ==
    \/ fastjson_dumps
    \/ Reload
    \/ fastjson_loads
    \/ parse_json_value
    \/ stack_overflow
    \/ parse_json_string
    \/ string_loop
    \/ parse_json_number
    \/ number_loop
    \/ number_convert
    \/ parse_json_array
    \/ array_loop
    \/ array_element
    \/ parse_json_object
    \/ object_loop
    \/ object_key
    \/ object_member
    \/ loads_return

Spec == Init /\ [][Next]_vars

---------------------------------------------------------------------------
(* The buffer on its own: one JsonBuffer taken through buffer_init and any  *)
(* sequence of buffer_append and buffer_append_char calls, each of which    *)
(* may fail to get memory, to buffer_free.  The codec's own buffers start   *)
(* at 32, 256 or 1024 bytes; the capacities here are small so that growth,  *)
(* and growth by more than one doubling, happens on short appends.          *)

(* The largest initial capacity (the callers pass a positive constant). *)
MaxCapacity == 3
(* The longest run of bytes one buffer_append is given. *)
MaxAppend == 3
(* The most content the buffer is taken to. *)
MaxContent == 6

AppendBytes == {ChLowerA, ChNul}
AppendRuns == UNION {[1..n -> AppendBytes] : n \in 0..MaxAppend}

BufInit ==
    /\ call = "buffer"
    /\ obj = NULL /\ indent = 0 /\ ptr = << >>
    /\ pos = 0
    /\ pc = "start"
    /\ stack = << >>
    /\ buf = NoBuffer
    /\ is_float = 0
    /\ ret = NULL
    /\ err = NoError
    /\ result = NULL
    /\ live = 0

InitBuffer ==
    /\ call = "buffer" /\ pc = "start"
    /\ \E initial_capacity \in 1..MaxCapacity, mem \in BOOLEAN :
         LET r == buffer_init(initial_capacity, mem)
         IN  /\ buf' = r.buf
             /\ pc' = IF r.rc < 0 THEN "init_failed" ELSE "ready"
             /\ err' = IF r.rc < 0 THEN MemoryError ELSE err
    /\ UNCHANGED <<call, obj, indent, ptr, pos, stack, is_float, ret, result, live>>

AppendRun ==
    /\ call = "buffer" /\ buf.alive
    /\ \E str \in AppendRuns, mem \in BOOLEAN :
         /\ buf.length + Len(str) <= MaxContent
         /\ LET r == buffer_append(buf, str, Len(str), mem)
            IN  /\ buf' = r.buf
                /\ pc' = IF r.rc < 0 THEN "append_failed" ELSE "appended"
                /\ err' = IF r.rc < 0 THEN MemoryError ELSE err
    /\ UNCHANGED <<call, obj, indent, ptr, pos, stack, is_float, ret, result, live>>

AppendChar ==
    /\ call = "buffer" /\ buf.alive
    /\ \E c \in AppendBytes, mem \in BOOLEAN :
         /\ buf.length + 1 <= MaxContent
         /\ LET r == buffer_append_char(buf, c, mem)
            IN  /\ buf' = r.buf
                /\ pc' = IF r.rc < 0 THEN "append_failed" ELSE "appended"
                /\ err' = IF r.rc < 0 THEN MemoryError ELSE err
    /\ UNCHANGED <<call, obj, indent, ptr, pos, stack, is_float, ret, result, live>>

FreeBuffer ==
    /\ call = "buffer" /\ buf.alive
    /\ buf' = buffer_free(buf)
    /\ pc' = "freed"
    /\ UNCHANGED <<call, obj, indent, ptr, pos, stack, is_float, ret, err, result,
                   live>>

BufNext ==
    \/ InitBuffer
    \/ AppendRun
    \/ AppendChar
    \/ FreeBuffer

BufSpec == BufInit /\ [][BufNext]_vars

---------------------------------------------------------------------------
(* Vocabulary of the properties.                                           *)
Encoded == pc = "returned" /\ call = "dumps"
Decoded == pc = "returned" /\ call = "loads"
Reloaded == Decoded /\ obj # NULL
OutOfMemory == err.kind = "MemoryError"
IsValueError == err.kind \in {"ValueError", "UnicodeDecodeError"}

(* The four whitespace characters of JSON. *)
JsonSpace(c) == c \in {ChSpace, ChTab, ChNewline, ChReturn}

RECURSIVE JsonSkip(_, _)
JsonSkip(text, p) ==
    IF p < Len(text) /\ JsonSpace(text[p + 1]) THEN JsonSkip(text, p + 1) ELSE p

(* The value decode is to give back for v: a set is written as an array,    *)
(* a mapping holds its live members in traversal order.                    *)
RECURSIVE AsDecoded(_)
AsDecoded(x) ==
    CASE x.t \in {"list", "tuple", "set"} ->
           PyList([i \in 1..Len(x.v) |-> AsDecoded(x.v[i])])
      [] x.t = "dict" ->
           LET members == SelectSeq(x.v, LAMBDA sl : sl.live)
           IN  PyDict([i \in 1..Len(members) |->
                         Slot(members[i].key, AsDecoded(members[i].value), TRUE)])
      [] OTHER -> x

(* The text of a serializer run started on an empty buffer. *)
Fresh == Started(buffer_init(OutputBufferSize, TRUE).buf)
TextOf(r) == BufferText(r.buf)

(* C1: round trip -- decode(encode(v, indent)) succeeds and equals v, for   *)
(* every encodable v and every indent >= 0 (memory permitting).             *)
C1_RoundTrip ==
    Reloaded /\ ~OutOfMemory => result # NULL /\ result = AsDecoded(obj)

RECURSIVE LeadingSpaces(_, _)
LeadingSpaces(text, i) ==
    IF i <= Len(text) /\ text[i] = ChSpace THEN 1 + LeadingSpaces(text, i + 1)
    ELSE 0

(* Every line of text from index i on starts with depth * width spaces,     *)
(* depth being the nesting level of what the line holds (one less for a     *)
(* line that starts with a closing bracket or brace).                      *)
RECURSIVE IndentOK(_, _, _, _, _)
IndentOK(text, i, depth, mode, width) ==
    IF i > Len(text) THEN TRUE
    ELSE LET c == text[i]
             k == LeadingSpaces(text, i)
             first == IF i + k <= Len(text) THEN text[i + k] ELSE ChNul
             level == IF first \in {ChRBracket, ChRBrace} THEN depth - 1 ELSE depth
         IN  CASE mode = "line" ->
                    k = level * width /\ IndentOK(text, i + k, depth, "text", width)
               [] mode = "escape" -> IndentOK(text, i + 1, depth, "string", width)
               [] mode = "string" ->
                    IndentOK(text, i + 1, depth,
                             IF c = ChBackslash THEN "escape"
                             ELSE IF c = ChQuote THEN "text" ELSE "string", width)
               [] OTHER ->
                    IndentOK(text, i + 1,
                             IF c \in {ChLBracket, ChLBrace} THEN depth + 1
                             ELSE IF c \in {ChRBracket, ChRBrace} THEN depth - 1
                             ELSE depth,
                             IF c = ChQuote THEN "string"
                             ELSE IF c = ChNewline THEN "line" ELSE "text",
                             width)

PrettyScenario ==
    <<ChLBrace, ChNewline, ChSpace, ChSpace, ChQuote, ChLowerA, ChQuote, ChColon,
      ChSpace, ChZero + 1, ChNewline, ChRBrace>>

(* C2: in pretty mode every line is indented by level * indent_width        *)
(* spaces; encode({"a": 1}, indent=2) is {, newline, 2 spaces, "a": 1,      *)
(* newline, }.                                                             *)
C2_PrettyIndent ==
    Encoded /\ indent > 0 /\ result # NULL =>
        /\ IndentOK(result.v, 1, 0, "line", indent)
        /\ (obj = PyDict(<<Slot(KeyOf(1), PyLong(1), TRUE)>>) /\ indent = 2
              => result.v = PrettyScenario)

(* Nesting depth of the text before index i (the model's texts carry no     *)
(* bracket, brace or comma inside a string).                               *)
RECURSIVE DepthAt(_, _)
DepthAt(text, i) ==
    IF i <= 1 THEN 0
    ELSE DepthAt(text, i - 1)
         + (IF text[i - 1] \in {ChLBracket, ChLBrace} THEN 1
            ELSE IF text[i - 1] \in {ChRBracket, ChRBrace} THEN -1 ELSE 0)

TrailingComma(text) ==
    \E i \in 1..Len(text) :
        /\ text[i] = ChComma
        /\ DepthAt(text, i) > 0
        /\ JsonSkip(text, i) < Len(text)
        /\ text[JsonSkip(text, i) + 1] \in {ChRBracket, ChRBrace}

(* C3: a text with a trailing comma in an array or object is rejected with  *)
(* a ValueError.                                                           *)
C3_TrailingCommaRejected ==
    Decoded /\ TrailingComma(ptr) /\ ~OutOfMemory =>
        result = NULL /\ IsValueError

(* The escape the serializer is to write for byte c. *)
ClaimedEscape(c) ==
    CASE c = ChBackslash -> <<ChBackslash, ChBackslash>>
      [] c = ChQuote     -> <<ChBackslash, ChQuote>>
      [] c = ChBackspace -> <<ChBackslash, ChLowerB>>
      [] c = ChFormFeed  -> <<ChBackslash, ChLowerF>>
      [] c = ChNewline   -> <<ChBackslash, ChLowerN>>
      [] c = ChReturn    -> <<ChBackslash, ChLowerR>>
      [] c = ChTab       -> <<ChBackslash, ChLowerT>>
      [] c < ChSpace \/ c = ChDel ->
           <<ChBackslash, ChLowerU, ChZero, ChZero,
             HexDigit(c \div 16), HexDigit(c % 16)>>
      [] OTHER -> <<c>>

(* C4: a string is written as its bytes, each control byte without a        *)
(* two-character escape as backslash, u and 4 lowercase hex digits, every   *)
(* other byte but \ and " unchanged.                                       *)
C4_ControlEscapes ==
    Encoded /\ obj.t = "str" /\ result # NULL =>
        result.v = <<ChQuote>>
                     \o Flatten([i \in 1..Len(obj.v) |-> ClaimedEscape(obj.v[i])])
                     \o <<ChQuote>>

(* The text of a mapping whose members are separated by one comma each. *)
MemberText(sl, width) ==
    TextOf(append_escaped_string(Fresh, sl.key, TRUE)) \o <<ChColon>>
      \o (IF width > 0 THEN <<ChSpace>> ELSE << >>)
      \o TextOf(serialize_object(Fresh, sl.value, 1, width, TRUE))

CommaSeparated(d, width) ==
    LET members == SelectSeq(d.v, LAMBDA sl : sl.live)
        nl == IF width > 0 THEN <<ChNewline>> ELSE << >>
    IN  <<ChLBrace>> \o nl
          \o Flatten([i \in 1..Len(members) |->
                        MemberText(members[i], width)
                          \o (IF i < Len(members) THEN <<ChComma>> ELSE << >>)
                          \o nl])
          \o <<ChRBrace>>

(* C5: whatever slots the mapping's table holds, the object is written      *)
(* with one ',' between consecutive members and none after the last.        *)
C5_MemberCommas ==
    Encoded /\ obj.t = "dict" /\ result # NULL =>
        result.v = CommaSeparated(obj, indent)

(* C6: loads returns the value it parsed only if nothing but whitespace     *)
(* follows it, and rejects anything else as "Extra data after JSON".        *)
C6_ExtraData ==
    [][pc = "ret" /\ stack = << >> /\ ret # NULL =>
         IF JsonSkip(ptr, pos) = len THEN result' = ret /\ err' = NoError
         ELSE result' = NULL /\ err' = ValueError("Extra data after JSON")]_vars

(* A \u inside a string of the text that 4 hex digits do not follow. *)
RECURSIVE BadUnicodeEscape(_, _, _)
BadUnicodeEscape(text, i, inString) ==
    IF i > Len(text) THEN FALSE
    ELSE IF ~inString THEN BadUnicodeEscape(text, i + 1, text[i] = ChQuote)
    ELSE IF text[i] = ChQuote THEN BadUnicodeEscape(text, i + 1, FALSE)
    ELSE IF text[i] # ChBackslash THEN BadUnicodeEscape(text, i + 1, TRUE)
    ELSE IF i + 1 <= Len(text) /\ text[i + 1] = ChLowerU
    THEN IF i + 5 <= Len(text) /\ \A k \in (i + 2)..(i + 5) : isxdigit(text[k])
         THEN BadUnicodeEscape(text, i + 6, TRUE)
         ELSE TRUE
    ELSE BadUnicodeEscape(text, i + 2, TRUE)

(* C7: a \u escape that exactly 4 hex digits do not follow makes decode     *)
(* fail with a ValueError.                                                 *)
C7_UnicodeEscapeRejected ==
    Decoded /\ BadUnicodeEscape(ptr, 1, FALSE) /\ ~OutOfMemory =>
        result = NULL /\ IsValueError

(* C8: the skips of parse_json_value and of loads stop at the first         *)
(* character that is not space, tab, newline or carriage return.            *)
C8_WhitespaceSet ==
    [][/\ pc = "value" /\ pc' # "ret" => pos' = JsonSkip(ptr, pos)
       /\ pc = "value" /\ pc' = "ret" /\ ret' = NULL => pos' = JsonSkip(ptr, pos)
       /\ pc = "ret" /\ stack = << >> /\ ret # NULL
            => pos' = JsonSkip(ptr, pos)]_vars

(* s as a whole is a number: sign, digits with an optional point (a digit   *)
(* on one side at least), and an exponent only with digits.                *)
Exponent(rest) ==
    \/ rest = << >>
    \/ /\ Head(rest) \in {ChLowerE, ChUpperE}
       /\ DigitRun(Unsigned(Tail(rest))) # << >>
       /\ DigitRun(Unsigned(Tail(rest))) = Unsigned(Tail(rest))

Fraction(ip, rest) ==
    IF rest # << >> /\ Head(rest) = ChDot
    THEN /\ ip \o DigitRun(Tail(rest)) # << >>
         /\ Exponent(Drop(Tail(rest), Len(DigitRun(Tail(rest)))))
    ELSE ip # << >> /\ Exponent(rest)

WholeNumber(s) ==
    Fraction(DigitRun(Unsigned(s)), Drop(Unsigned(s), Len(DigitRun(Unsigned(s)))))

(* C9: when the run of number characters the parser has consumed is not as  *)
(* a whole a number, the parse fails with a ValueError.                     *)
C9_MalformedNumberRejected ==
    [][pc = "number_convert" /\ ~WholeNumber(BufferText(buf)) /\ ~OutOfMemory' =>
         ret' = NULL /\ IsValueError']_vars

(* What the calls in progress hold: each frame's list or dict and pending   *)
(* key.                                                                    *)
RECURSIVE HeldBy(_)
HeldBy(frames) ==
    IF frames = << >> THEN 0
    ELSE CountObjects(Head(frames).agg) + CountObjects(Head(frames).key)
         + HeldBy(Tail(frames))

(* C10: a call ends with a value and no error, or with no value and an      *)
(* error; a parse function that fails has released its scratch buffer and   *)
(* what it had built, so that only the enclosing calls' aggregates are      *)
(* left, and nothing once the entry point has returned.                    *)
C10_NoPartialResult ==
    /\ pc = "returned" =>
         /\ (result # NULL /\ err = NoError) \/ (result = NULL /\ err # NoError)
         /\ ~buf.alive /\ stack = << >>
         /\ live = IF call = "loads" THEN CountObjects(result) ELSE 0
    /\ pc = "ret" /\ ret = NULL =>
         err # NoError /\ ~buf.alive /\ live = HeldBy(stack)

(* A parse that failed after it had put an element into a list. *)
C10_Witness ==
    /\ Decoded /\ result = NULL /\ live = 0 /\ ~buf.alive
    /\ err = ValueError("Expected ',' or ']'")

---------------------------------------------------------------------------
(* The deepest nesting of arrays and objects in the text. *)
RECURSIVE DeepestAt(_, _)
DeepestAt(text, i) ==
    IF i <= 1 THEN 0
    ELSE LET below == DeepestAt(text, i - 1)
             here == DepthAt(text, i)
         IN  IF here > below THEN here ELSE below

NestingDepth(text) == DeepestAt(text, Len(text) + 1)

(* An iteration of the string or number loop that goes on to the next, and  *)
(* an iteration of the array or object loop that does (after the ','), has  *)
(* moved the cursor forward.                                               *)
LoopsAdvance ==
    /\ pc = "string_loop" /\ pc' = "string_loop" => pos' > pos
    /\ pc = "number_loop" /\ pc' = "number_loop" => pos' > pos
    /\ pc = "ret" /\ pc' \in {"array_loop", "object_loop"} => pos' > pos

(* How far a place in the code is from the return, among the places the     *)
(* call can be at without having moved the cursor.                         *)
Rank(at) ==
    CASE at \in {"call", "array_loop", "object_loop"} -> 9
      [] at = "value" -> 8
      [] at \in {"string", "number", "array", "object"} -> 7
      [] at \in {"string_loop", "number_loop"} -> 6
      [] at = "number_convert" -> 5
      [] at = "ret" -> 4
      [] OTHER -> 0

(* A bound on the steps a decode call has left: the characters not yet      *)
(* consumed first, then the place in the code, then the calls to return     *)
(* from.                                                                   *)
Variant == (len - pos) * 100 + Rank(pc) * 10 + Len(stack)

(* C11 as stated: every step of a decode call brings it nearer to its      *)
(* return, whatever the input, so that the call ends with a value or an     *)
(* error.                                                                  *)
C11_EveryDecodeReturns ==
    [][call = "loads" => Variant' < Variant /\ pc' # "crashed"]_vars

(* C11: a decode call runs a bounded number of steps -- each lowers the     *)
(* variant, which stays at or above 0 -- and every loop iteration that      *)
(* goes on has moved the cursor forward; a scratch buffer that is appended  *)
(* to has a capacity above 0; the call is cut short, by the exhaustion of   *)
(* the call stack, only on a text nested at least StackFrames deep.         *)
C11_Terminates ==
    /\ [][call = "loads" => Variant' < Variant /\ LoopsAdvance]_vars
    /\ [](Variant >= 0 /\ (buf.alive => buf.capacity > 0))
    /\ [](pc = "crashed" => NestingDepth(ptr) >= StackFrames)

(* A decode of a text nested as deep as the stack allows has returned, the  *)
(* loops having run.                                                       *)
C11_Witness ==
    Decoded /\ NestingDepth(ptr) = StackFrames - 1 /\ pos = len /\ len = MaxTokens

---------------------------------------------------------------------------
(* C12: from buffer_init on, through appends that succeed and appends that  *)
(* fail, length <= capacity; once an append has succeeded the byte at       *)
(* index length is NUL and inside the storage (length < capacity), the      *)
(* bytes before it being the content.                                      *)
C12_LengthWithinCapacity ==
    /\ buf.alive => buf.length <= buf.capacity
    /\ pc \in {"appended", "append_failed"} /\ buf.data # << >> =>
          /\ buf.length < buf.capacity
          /\ Len(buf.data) = buf.length + 1
          /\ buf.data[buf.length + 1] = ChNul

(* An append has succeeded after the storage grew, and its NUL is the last  *)
(* byte of the storage.                                                    *)
C12_Witness ==
    /\ pc = "appended"
    /\ buf.capacity > MaxCapacity
    /\ buf.length = buf.capacity - 1

---------------------------------------------------------------------------
(* C13: an append whose reallocation fails returns the error and leaves     *)
(* the buffer -- storage, length, capacity, content -- as it was, with no   *)
(* byte of the pending data written.                                       *)
C13_AppendAllOrNothing ==
    [][pc' = "append_failed" => buf' = buf /\ err' = MemoryError]_vars

(* An append has failed on a buffer that holds content. *)
C13_Witness ==
    /\ pc = "append_failed"
    /\ buf.alive /\ buf.length > 0
    /\ err = MemoryError

---------------------------------------------------------------------------
(* C14: all through a decode call the cursor is within the text,            *)
(* 0 <= pos <= len, and no step of the parser -- skipping whitespace,       *)
(* taking a character, matching a keyword, reading a \u escape -- moves     *)
(* it back.                                                                *)
C14_CursorInBounds ==
    /\ [](call = "loads" => 0 <= pos /\ pos <= len)
    /\ [][call = "loads" => pos' >= pos]_vars

(* A decode has returned with the cursor at the end of the text, which it   *)
(* reached by the jump over a keyword that ends the text.                  *)
C14_Witness ==
    /\ Decoded
    /\ pos = len
    /\ MatchKeyword(ptr, 0, KwNull)
    /\ len = Len(KwNull)

====
